---- MODULE Spec2Model ----
(***************************************************************************)
(* State-machine model of the EXOSIMS survey simulation prototype          *)
(* (EXOSIMS/Prototypes/SurveySimulation.py) and of the mission clock it    *)
(* drives (TimeKeeping, known here through tests/Prototypes/              *)
(* test_TimeKeeping.py and the design document).                            *)
(*                                                                         *)
(* Times are integers counted in ticks; Day ticks make a day.  Every       *)
(* integration time the oracles return is a multiple of 2*nt_flux ticks so *)
(* that t_det/nt_flux/2 is exact, as it is in floating point.              *)
(***************************************************************************)
EXTENDS Integers, Sequences, FiniteSets, TLC

VARIABLES
    TK,            \* TimeKeeping: the mission clock and its ceilings
    TL,            \* TargetList: the catalog and the per-star oracle answers
    SU,            \* SimulatedUniverse: the planets
    OS,            \* OpticalSystem, Observatory, observing mode, PostProcessing
    pc,            \* position of run_sim
    sInd,          \* run_sim's current target (None before the first)
    t_det,         \* integration time returned by next_target
    slewTime,      \* slew time returned by next_target
    starVisits,    \* visit count of every target
    starRevisit,   \* sequence of <<target, revisit time>> rows
    lastDetected,  \* per target: det, fEZ, dMag, WA sequences
    fullSpectra,   \* per planet
    partialSpectra,\* per planet
    starExtended,  \* set of targets
    DRM,           \* the mission log
    rec,           \* the record run_sim is filling (local DRM)
    sel,           \* what the last selecting pass of next_target saw
    chr,           \* what the last observation_characterization did
    call           \* the last clock call made by the clock test harness

config == <<TL, SU, OS>>
mission == <<pc, sInd, t_det, slewTime, starVisits, starRevisit, lastDetected,
             fullSpectra, partialSpectra, starExtended, DRM, rec, sel, chr>>
vars == <<TK, TL, SU, OS, pc, sInd, t_det, slewTime, starVisits, starRevisit,
          lastDetected, fullSpectra, partialSpectra, starExtended, DRM, rec,
          sel, chr, call>>

----------------------------------------------------------------------------
(* Units and bounds *)

Day == 2 * 2
Week == 7 * Day
None == 0 - 1
NoCall == [op |-> "none"]

MaxLife == 21
MaxStars == 2
MaxPlans == 2
MaxDRM == 3

Max(a, b) == IF a >= b THEN a ELSE b
Min(a, b) == IF a <= b THEN a ELSE b
Abs(x) == IF x >= 0 THEN x ELSE 0 - x
SetMax(S) == CHOOSE x \in S : \A y \in S : y <= x
SetMin(S) == CHOOSE x \in S : \A y \in S : x <= y

----------------------------------------------------------------------------
(* TimeKeeping *)

\* allocate_time called with one argument charges the observation budget
addExoplanetObsTimeDefault == TRUE

\* missionPortion is kept in tenths: the budget is missionLife*missionPortion/10
OverBudget(tk, eo) == eo * 10 > tk.missionLife * tk.missionPortion

\* the current observing block is OBstartTimes[OBnumber] .. OBendTimes[OBnumber]
OBstart(tk) == tk.OBstartTimes[tk.OBnumber + 1]

OBend(tk) == tk.OBendTimes[tk.OBnumber + 1]

\* allocate_time forgetting the end of the current observing block
allocate_ok_noBlockEnd(tk, dt, charge) ==
    /\ dt > 0
    /\ tk.currentTimeNorm + dt <= tk.missionLife
    /\ (charge => ~OverBudget(tk, tk.exoplanetObsTime + dt))

\* the boolean allocate_time returns
allocate_ok(tk, dt, charge) ==
    /\ dt > 0
    /\ tk.currentTimeNorm + dt <= tk.missionLife
    /\ tk.currentTimeNorm + dt <= OBend(tk)
    /\ (charge => ~OverBudget(tk, tk.exoplanetObsTime + dt))

\* allocate_time charging the observation budget whatever the flag says
allocate_time_alwaysCharging(tk, dt, charge) ==
    IF allocate_ok(tk, dt, charge)
    THEN [tk EXCEPT !.currentTimeAbs = @ + dt,
                    !.currentTimeNorm = @ + dt,
                    !.exoplanetObsTime = @ + dt]
    ELSE tk

\* the clock after allocate_time(dt, charge)
allocate_time(tk, dt, charge) ==
    IF allocate_ok(tk, dt, charge)
    THEN [tk EXCEPT !.currentTimeAbs = @ + dt,
                    !.currentTimeNorm = @ + dt,
                    !.exoplanetObsTime = IF charge THEN @ + dt ELSE @]
    ELSE tk

\* mission_is_over waiting for the budget to be exceeded, not reached
mission_is_over_budgetExceeded(tk) ==
    \/ tk.exoplanetObsTime * 10 > tk.missionLife * tk.missionPortion
    \/ tk.currentTimeNorm >= tk.missionLife
    \/ /\ tk.currentTimeNorm > OBend(tk)
       /\ tk.OBnumber + 1 = Len(tk.OBendTimes)

mission_is_over(tk) ==
    \/ tk.exoplanetObsTime * 10 >= tk.missionLife * tk.missionPortion
    \/ tk.currentTimeNorm >= tk.missionLife
    \/ /\ tk.currentTimeNorm > OBend(tk)
       /\ tk.OBnumber + 1 = Len(tk.OBendTimes)

\* automatic construction: the distance between the starts of two blocks,
\* OBduration / missionPortion
startToStart(tk, OBduration) == (OBduration * 10) \div tk.missionPortion

\* automatic construction: the number of blocks of width OBduration whose
\* widths sum to missionLife * missionPortion
numBlocks(tk, OBduration) ==
    (tk.missionLife * tk.missionPortion) \div (10 * OBduration)

\* init_OB laying the blocks back to back, without idle gaps
init_OB_contiguous(tk, OBduration) ==
    [tk EXCEPT
        !.OBduration = OBduration,
        !.OBnumber = 0,
        !.OBstartTimes = [k \in 1 .. numBlocks(tk, OBduration) |->
                             (k - 1) * OBduration],
        !.OBendTimes = [k \in 1 .. numBlocks(tk, OBduration) |->
                           k * OBduration]]

\* init_OB(str(None), OBduration): the blocks built from OBduration,
\* missionLife and missionPortion
init_OB(tk, OBduration) ==
    [tk EXCEPT
        !.OBduration = OBduration,
        !.OBnumber = 0,
        !.OBstartTimes = [k \in 1 .. numBlocks(tk, OBduration) |->
                             (k - 1) * startToStart(tk, OBduration)],
        !.OBendTimes = [k \in 1 .. numBlocks(tk, OBduration) |->
                           (k - 1) * startToStart(tk, OBduration)
                               + OBduration]]

\* advance_to_next_observing_block leaving currentTimeAbs where it was
advance_to_next_observing_block_normOnly(tk) ==
    [tk EXCEPT !.OBnumber = @ + 1,
               !.currentTimeNorm = tk.OBstartTimes[tk.OBnumber + 2]]

\* the clock after advance_to_next_observing_block(), a later block existing
advance_to_next_observing_block(tk) ==
    [tk EXCEPT !.OBnumber = @ + 1,
               !.currentTimeNorm = tk.OBstartTimes[tk.OBnumber + 2],
               !.currentTimeAbs =
                   @ + (tk.OBstartTimes[tk.OBnumber + 2] - tk.currentTimeNorm)]

\* the one-argument call SurveySimulation makes
Alloc(tk, dt) == allocate_time(tk, dt, addExoplanetObsTimeDefault)

----------------------------------------------------------------------------
(* Oracles: Observatory, OpticalSystem, Completeness *)

Stars == 0 .. (TL.nStars - 1)
Planets == 0 .. (SU.nPlans - 1)

\* Obs.keepout for one target at one absolute time: TRUE when the target is
\* observable.  A star is inside keepout during [koFrom, koTo) of mission time.
keepout(s, tAbs) ==
    LET t == tAbs - TK.missionStart
    IN  ~(TL.koFrom[s] <= t /\ t < TL.koTo[s])

\* OS.calc_maxintTime for one target
calc_maxintTime(s) == TL.maxintTime[s]

\* Completeness.completeness_update for one target
completeness_update(s, tNorm) == TL.compUpdate[s]

\* sqrt(slewTime_fac*sin(sd/2)): zero for the same direction
SlewOracle(old, s) == OS.slewUnit * Abs(old - s)

\* np.any over an array of indices: false when every index is 0
npAny(S) == \E x \in S : x # 0

----------------------------------------------------------------------------
(* next_target: one pass of the search loop *)

\* lines 351-366
slewTimes(old) ==
    [s \in Stars |-> IF OS.haveOcculter /\ old # None
                     THEN SlewOracle(old, s) ELSE 0]

\* line 368
startTimes(tk, old) ==
    [s \in Stars |-> tk.currentTimeAbs + slewTimes(old)[s]]

\* lines 369-371
StartKeepoutFilter(S, tk, old) ==
    {s \in S : keepout(s, startTimes(tk, old)[s])}

\* lines 375-378: t_dets stays zero where calc_maxintTime was not asked
t_detsOf(S1) ==
    [s \in Stars |-> IF npAny(S1) /\ s \in S1 THEN calc_maxintTime(s) ELSE 0]

\* line 380
t_totOf(S1) ==
    [s \in Stars |-> t_detsOf(S1)[s] * OS.timeMultiplier]

\* the cutoff test of line 382 without its lower bound
IntTimeFilter_noLowerBound(S1) ==
    IF npAny(S1)
    THEN {s \in Stars : t_totOf(S1)[s] < OS.intCutoff}
    ELSE S1

\* lines 375, 382
IntTimeFilter(S1) ==
    IF npAny(S1)
    THEN {s \in Stars : 0 < t_totOf(S1)[s] /\ t_totOf(S1)[s] < OS.intCutoff}
    ELSE S1

\* line 387
endTimes(S1, tk, old) ==
    [s \in Stars |-> startTimes(tk, old)[s] + t_detsOf(S1)[s]]

\* step 3 testing keepout at the start time again, not at the end time
EndKeepoutFilter_atStart(S2, S1, tk, old) ==
    IF npAny(S2)
    THEN {s \in S2 : keepout(s, startTimes(tk, old)[s])}
    ELSE S2

\* lines 386-390
EndKeepoutFilter(S2, S1, tk, old) ==
    IF npAny(S2)
    THEN {s \in S2 : keepout(s, endTimes(S1, tk, old)[s])}
    ELSE S2

\* dt_rev <= dt_max
RevisitMatch_inclusive(row, tNorm) == Abs(row[2] - tNorm) <= Week

\* lines 396-399
RevisitMatch(row, tNorm) == Abs(row[2] - tNorm) < Week

\* the revisit list read without the test "if x in sInds"
ind_rev_unfiltered(S3, revisit, tNorm) ==
    IF Len(revisit) # 0
    THEN {revisit[i][1] : i \in {j \in 1 .. Len(revisit) :
              RevisitMatch(revisit[j], tNorm)}}
    ELSE {}

\* line 399
ind_rev(S3, revisit, tNorm) ==
    IF Len(revisit) # 0
    THEN {revisit[i][1] : i \in {j \in 1 .. Len(revisit) :
              RevisitMatch(revisit[j], tNorm) /\ revisit[j][1] \in S3}}
    ELSE {}

\* lines 394-401
VisitFilter(S3, visits, revisit, tNorm) ==
    IF npAny(S3)
    THEN LET vmin == SetMin({visits[s] : s \in S3})
         IN  {s \in S3 : visits[s] = vmin} \cup ind_rev(S3, revisit, tNorm)
    ELSE S3

\* the ranking forgetting the update for the targets already visited
compOf_baseline(s, visits, tNorm) == TL.comp0[s]

\* lines 406-408
compOf(s, visits, tNorm) ==
    IF visits[s] > 0 THEN completeness_update(s, tNorm) ELSE TL.comp0[s]

\* lines 409-410: the targets np.random.choice draws from
BestTargets(S4, visits, tNorm) ==
    LET cmax == SetMax({compOf(s, visits, tNorm) : s \in S4})
    IN  {s \in S4 : compOf(s, visits, tNorm) = cmax}

\* lines 406-408: comp = TL.comp0[sInds] indexes with an array and so is a
\* copy; comp[inds] = ... writes the updated values into the copy and the
\* catalog keeps its baseline
comp0After(comp0, S4, visits, tNorm) == comp0

\* the candidate sets of one pass
Pass(tk, old, visits, revisit) ==
    LET S1 == StartKeepoutFilter(Stars, tk, old)
        S2 == IntTimeFilter(S1)
        S3 == EndKeepoutFilter(S2, S1, tk, old)
        S4 == VisitFilter(S3, visits, revisit, tk.currentTimeNorm)
    IN  [S1 |-> S1, S2 |-> S2, S3 |-> S3, S4 |-> S4,
         t_dets |-> t_detsOf(S1),
         slew |-> slewTimes(old),
         start |-> startTimes(tk, old),
         end |-> endTimes(S1, tk, old),
         now |-> tk.currentTimeNorm,
         visits |-> visits,
         revisit |-> revisit]

----------------------------------------------------------------------------
(* Sequences standing for numpy arrays *)

RECURSIVE SortedSeq(_)
SortedSeq(S) ==
    IF S = {} THEN << >>
    ELSE LET m == SetMin(S) IN <<m>> \o SortedSeq(S \ {m})

\* a[mask] for a boolean mask of the same length
RECURSIVE Mask(_, _)
Mask(a, mask) ==
    IF Len(a) = 0 \/ Len(mask) = 0 THEN << >>
    ELSE (IF Head(mask) THEN <<Head(a)>> ELSE << >>) \o Mask(Tail(a), Tail(mask))

\* a[idx] for a sequence of (1-based) positions
Take(a, idx) == [i \in 1 .. Len(idx) |-> a[idx[i]]]

Range(a) == {a[i] : i \in 1 .. Len(a)}
AnyTrue(a) == \E i \in 1 .. Len(a) : a[i]
Last(a) == a[Len(a)]
Front(a) == SubSeq(a, 1, Len(a) - 1)
\* x[:-1] if x[-1] == -1 else x
StripFA(a) == IF Len(a) > 0 /\ Last(a) = None THEN Front(a) ELSE a

\* np.where(SU.plan2star == sInd)[0]
pIndsOf(s) == SortedSeq({p \in Planets : SU.plan2star[p] = s})

----------------------------------------------------------------------------
(* calc_signal_noise and the clock *)

\* calc_signal_noise moving the clock itself, without allocate_time
calc_signal_noise_unchecked(tk, t_int) ==
    [tk EXCEPT !.currentTimeAbs = @ + 2 * (t_int \div 2),
               !.currentTimeNorm = @ + 2 * (t_int \div 2),
               !.exoplanetObsTime = @ + 2 * (t_int \div 2)]

\* calc_signal_noise forgetting the second half of the sub-interval
calc_signal_noise_firstHalf(tk, t_int) == Alloc(tk, t_int \div 2)

\* lines 728-742: the two half allocations of one sub-interval
calc_signal_noise(tk, t_int) == Alloc(Alloc(tk, t_int \div 2), t_int \div 2)

\* the loop "for i in range(self.nt_flux)" around calc_signal_noise
RECURSIVE Integrate(_, _, _)
Integrate(tk, dt, n) ==
    IF n = 0 THEN tk ELSE Integrate(calc_signal_noise(tk, dt), dt, n - 1)

----------------------------------------------------------------------------
(* observation_detection *)

\* the working-angle test counting a planet at a limit as out of range
observableOf_inclusive(p) ==
    IF SU.WA[p] >= OS.OWA THEN 0 - 2
    ELSE IF SU.WA[p] <= OS.IWA THEN 0 - 1
    ELSE 1

\* lines 473-477
observableOf(p) ==
    IF SU.WA[p] > OS.OWA THEN 0 - 2
    ELSE IF SU.WA[p] < OS.IWA THEN 0 - 1
    ELSE 1

\* observation_detection moving the clock itself, without allocate_time
DetectionClock_unchecked(tk, pInds, tdet) ==
    [tk EXCEPT !.currentTimeAbs = @ + tdet * OS.timeMultiplier,
               !.currentTimeNorm = @ + tdet * OS.timeMultiplier,
               !.exoplanetObsTime = @ + tdet * OS.timeMultiplier]

\* lines 481-500: the clock after the detection integration
DetectionClock(tk, pInds, tdet) ==
    IF \E i \in 1 .. Len(pInds) : observableOf(pInds[i]) = 1
    THEN Alloc(Integrate(tk, tdet \div OS.nt_flux, OS.nt_flux),
               tdet * (OS.timeMultiplier - 1))
    ELSE Alloc(tk, tdet * OS.timeMultiplier)

\* lines 505-507: MD is the set of in-range planets the oracle reports missed
detectedOf(pInds, MD) ==
    [i \in 1 .. Len(pInds) |->
        IF observableOf(pInds[i]) = 1
        THEN (IF pInds[i] \in MD THEN 0 ELSE 1)
        ELSE observableOf(pInds[i])]

\* lines 518-519
Snapshot(pInds, detected) ==
    [det  |-> [i \in 1 .. Len(pInds) |-> detected[i] = 1],
     fEZ  |-> [i \in 1 .. Len(pInds) |-> SU.fEZ[pInds[i]]],
     dMag |-> [i \in 1 .. Len(pInds) |-> SU.dMag[pInds[i]]],
     WA   |-> [i \in 1 .. Len(pInds) |-> SU.WA[pInds[i]]]]

\* the false alarm flagged in the detection mask only
AppendFA_maskOnly(snap, fEZ, dMag, WA) ==
    [snap EXCEPT !.det = Append(snap.det, TRUE)]

\* lines 528-531
AppendFA(snap, fEZ, dMag, WA) ==
    [det  |-> Append(snap.det, TRUE),
     fEZ  |-> Append(snap.fEZ, fEZ),
     dMag |-> Append(snap.dMag, dMag),
     WA   |-> Append(snap.WA, WA)]

\* np.random.uniform(a, b): a value between the two limits
Uniform(a, b) == Min(a, b) .. Max(a, b)

\* lines 524-525: the limits of the false-alarm working angle
FA_WAhigh(s) == Min(OS.OWA, TL.aMaxWA[s])
\* line 526: -2.5*log10(PPro.maxFAfluxratio(WA))
FA_dMaglow(WA) == OS.dMagFAmin

\* the revisit time counted from the mission start, not from the current time
t_revOf_fromMissionStart(tk, s, anyDet) ==
    IF anyDet THEN TL.revDet[s] ELSE TL.revAvg[s]

\* lines 539-553: the revisit time; T/2 with a detection, 0.75 T without
t_revOf(tk, s, anyDet) ==
    tk.currentTimeNorm + (IF anyDet THEN TL.revDet[s] ELSE TL.revAvg[s])

EmptySnapshot == [det |-> << >>, fEZ |-> << >>, dMag |-> << >>, WA |-> << >>]

----------------------------------------------------------------------------
(* run_sim and next_target *)

\* lines 244-248: the record run_sim starts for a selected target
NewRecord(s, tk) ==
    [star_ind |-> s,
     arrival_time |-> tk.currentTimeNorm,
     plan_inds |-> pIndsOf(s),
     int_time_det |-> None,
     plan_detected |-> << >>,
     FA |-> FALSE, FA_fEZ |-> None, FA_dMag |-> None, FA_WA |-> None,
     int_time_char |-> None,
     plan_characterized |-> << >>,
     SNR_char |-> << >>,
     slew_mass_used |-> None, slew_dV |-> None,
     det_mass_used |-> None, det_dV |-> None, det_scMass |-> None,
     char_mass_used |-> None, char_dV |-> None, char_scMass |-> None]

NoRecord == [star_ind |-> None]

\* lines 234-238: targets of the log with a detected planet
DetectedStars(log) ==
    {log[i].star_ind : i \in {j \in 1 .. Len(log) :
        \E k \in 1 .. Len(log[j].plan_detected) : log[j].plan_detected[k] = 1}}

\* lines 226-227, 295-299: the loop test of run_sim finds the mission over
RunSimExit ==
    /\ pc = "loop"
    /\ mission_is_over(TK)
    /\ pc' = "DONE"
    /\ UNCHANGED <<TK, config, sInd, t_det, slewTime, starVisits, starRevisit,
                   lastDetected, fullSpectra, partialSpectra, starExtended,
                   DRM, rec, sel, chr, call>>

\* lines 227-230, 331-338: run_sim calls next_target, which charges the
\* settling and overhead time
NextTargetEnter ==
    /\ pc = "loop"
    /\ ~mission_is_over(TK)
    /\ TK' = Alloc(TK, OS.settlingTime + OS.ohTime)
    /\ pc' = "search"
    /\ UNCHANGED <<config, sInd, t_det, slewTime, starVisits, starRevisit,
                   lastDetected, fullSpectra, partialSpectra, starExtended,
                   DRM, rec, sel, chr, call>>

\* lines 341, 422-424, 232: the search loop finds the mission over and
\* next_target returns None, None, None
SearchOver ==
    /\ pc = "search"
    /\ mission_is_over(TK)
    /\ sInd' = None /\ t_det' = None /\ slewTime' = None
    /\ pc' = "loop"
    /\ UNCHANGED <<TK, config, starVisits, starRevisit, lastDetected,
                   fullSpectra, partialSpectra, starExtended, DRM, rec, sel,
                   chr, call>>

\* lines 341-404, 417-420: a pass that selects nothing charges dtAlloc
SearchRetry ==
    /\ pc = "search"
    /\ ~mission_is_over(TK)
    /\ LET P == Pass(TK, sInd, starVisits, starRevisit)
       IN  /\ ~npAny(P.S4)
           /\ sel' = [sInd |-> None, ran |-> TRUE, pass |-> P]
    /\ TK' = Alloc(TK, TK.dtAlloc)
    /\ UNCHANGED <<config, pc, sInd, t_det, slewTime, starVisits, starRevisit,
                   lastDetected, fullSpectra, partialSpectra, starExtended,
                   DRM, rec, chr, call>>

\* lines 341-415, 426-433: a pass that selects a target, the slew allocation,
\* and lines 232-248 of run_sim
SearchSelect ==
    /\ pc = "search"
    /\ ~mission_is_over(TK)
    /\ Len(DRM) < MaxDRM
    /\ LET P == Pass(TK, sInd, starVisits, starRevisit)
       IN  /\ npAny(P.S4)
           /\ \E s \in BestTargets(P.S4, starVisits, TK.currentTimeNorm) :
                LET tk1 == IF OS.haveOcculter THEN Alloc(TK, P.slew[s]) ELSE TK
                IN  /\ starVisits' = [starVisits EXCEPT ![s] = @ + 1]
                    /\ TK' = tk1
                    /\ IF OS.haveOcculter /\ mission_is_over(tk1)
                       THEN /\ sInd' = None /\ t_det' = None /\ slewTime' = None
                            /\ pc' = "loop"
                            /\ sel' = [sInd |-> None, ran |-> TRUE, pass |-> P]
                            /\ UNCHANGED <<starExtended, rec>>
                       ELSE /\ sInd' = s
                            /\ t_det' = P.t_dets[s]
                            /\ slewTime' = P.slew[s]
                            /\ sel' = [sInd |-> s, ran |-> TRUE, pass |-> P]
                            /\ starExtended' =
                                 IF tk1.currentTimeNorm > tk1.missionLife
                                    /\ starExtended = {}
                                 THEN DetectedStars(DRM)
                                 ELSE starExtended
                            /\ rec' = NewRecord(s, tk1)
                            /\ pc' = "detect"
           /\ TL' = [TL EXCEPT !.comp0 = comp0After(TL.comp0, P.S4, starVisits,
                                                     TK.currentTimeNorm)]
    /\ UNCHANGED <<SU, OS, starRevisit, lastDetected, fullSpectra,
                   partialSpectra, DRM, chr, call>>

\* the answers an oracle may give at one call
Answers(mode) ==
    IF mode = "always" THEN {TRUE}
    ELSE IF mode = "never" THEN {FALSE}
    ELSE BOOLEAN

\* PPro.det_occur: the false alarm flag, and the sets of planets missed
FAanswers == Answers(OS.FAmode)
MDanswers(inRange) ==
    IF OS.MDmode = "always" THEN {inRange}
    ELSE IF OS.MDmode = "never" THEN {{}}
    ELSE SUBSET inRange

\* the masks SNR > mode['SNR'] the photon counts may give for n planets
SNRanswers(n) ==
    IF OS.SNRmode = "always" THEN {1 .. n}
    ELSE IF OS.SNRmode = "never" THEN {{}}
    ELSE SUBSET (1 .. n)

\* lines 252-263 of run_sim around observation_detection (lines 470-562)
observation_detection ==
    /\ pc = "detect"
    /\ LET pInds == pIndsOf(sInd)
           tk1 == DetectionClock(TK, pInds, t_det)
           inRange == {p \in Range(pInds) : observableOf(p) = 1}
       IN  \E MD \in MDanswers(inRange), FA \in FAanswers :
           \E WA \in (IF FA THEN Uniform(OS.IWA, FA_WAhigh(sInd)) ELSE {None}) :
           \E dMag \in (IF FA THEN Uniform(FA_dMaglow(WA), OS.dMagLim) ELSE {None}) :
             LET detected == detectedOf(pInds, MD)
                 anyDet == \E i \in 1 .. Len(detected) : detected[i] = 1
                 snap0 == Snapshot(pInds, detected)
                 snap == IF FA THEN AppendFA(snap0, OS.fEZ0, dMag, WA) ELSE snap0
             IN  /\ TK' = tk1
                 /\ call' = [op |-> "det_occur", FA |-> FA, MD |-> MD]
                 /\ lastDetected' = [lastDetected EXCEPT ![sInd] = snap]
                 /\ IF FA /\ ~anyDet
                    THEN \* line 542: np.argmin of an empty array raises
                         /\ pc' = "crashed"
                         /\ UNCHANGED <<starRevisit, rec>>
                    ELSE /\ starRevisit' = Append(starRevisit,
                                <<sInd, t_revOf(tk1, sInd, anyDet)>>)
                         /\ rec' = [rec EXCEPT
                                !.int_time_det = t_det,
                                !.plan_detected = detected,
                                !.FA = FA,
                                !.FA_fEZ = IF FA THEN Last(snap.fEZ) ELSE None,
                                !.FA_dMag = IF FA THEN Last(snap.dMag) ELSE None,
                                !.FA_WA = IF FA THEN Last(snap.WA) ELSE None]
                         /\ pc' = "char"
    /\ UNCHANGED <<config, sInd, t_det, slewTime, starVisits, fullSpectra,
                   partialSpectra, starExtended, DRM, sel, chr>>

----------------------------------------------------------------------------
(* observation_characterization *)

\* OS.calc_intTime for one planet, from the dMag and WA arguments it is given
calc_intTime(s, dMag, WA) == Day * ((dMag + WA) % 4)

\* positions (1-based) of the TRUE entries of a mask
RECURSIVE WhereFrom(_, _)
WhereFrom(mask, i) ==
    IF i > Len(mask) THEN << >>
    ELSE (IF mask[i] THEN <<i>> ELSE << >>) \o WhereFrom(mask, i + 1)
Where(mask) == WhereFrom(mask, 1)

\* lines 607-614
tocharOf(pIndsDet, FA, fullSp) ==
    IF ~FA
    THEN [i \in 1 .. Len(pIndsDet) |-> fullSp[pIndsDet[i]] # 1]
    ELSE IF Len(pIndsDet) > 1
    THEN Append([i \in 1 .. Len(pIndsDet) - 1 |-> fullSp[pIndsDet[i]] # 1], TRUE)
    ELSE <<TRUE>>

goChar_ignoringStartKeepout(early, kogoodStart, tochar, kogoodEnd) ==
    ~early /\ AnyTrue(tochar) /\ AnyTrue(kogoodEnd)

\* lines 603, 622, 637: the tests a characterization goes through before it
\* integrates
goChar(early, kogoodStart, tochar, kogoodEnd) ==
    ~early /\ kogoodStart /\ AnyTrue(tochar) /\ AnyTrue(kogoodEnd)

\* lines 592-640: what observation_characterization plans before integrating
CharPlan(s, tk, snap, fullSp) ==
    LET pInds0 == pIndsOf(s)
        det == snap.det
        FA == (Len(det) = Len(pInds0) + 1)
        pInds == IF FA THEN Append(pInds0, None) ELSE pInds0
        early == ~npAny(Range(pInds))
        pIndsDet == Mask(pInds, det)
        tochar == tocharOf(pIndsDet, FA, fullSp)
        kogoodStart == keepout(s, tk.currentTimeAbs)
        cand == Mask(pIndsDet, tochar)
        \* lines 627-628: columns 1 and 2 of the snapshot
        dMag == Mask(Mask(snap.fEZ, det), tochar)
        WA == Mask(Mask(snap.dMag, det), tochar)
        t_chars == [i \in 1 .. Len(cand) |-> calc_intTime(s, dMag[i], WA[i])]
        t_tots == [i \in 1 .. Len(cand) |-> t_chars[i] * OS.timeMultiplier]
        cutoff == Where([i \in 1 .. Len(cand) |-> t_tots[i] < OS.intCutoff])
        kogoodEnd == [i \in 1 .. Len(cutoff) |->
                         keepout(s, tk.currentTimeAbs + t_tots[cutoff[i]])]
        kept == Take(cutoff, Where(kogoodEnd))
        go == goChar(early, kogoodStart, tochar, kogoodEnd)
    IN  [FA |-> FA, pInds |-> pInds, det |-> det, early |-> early,
         pIndsDet |-> pIndsDet, tochar |-> tochar, kogoodStart |-> kogoodStart,
         cand |-> cand, dMagArg |-> dMag, WAarg |-> WA,
         t_chars |-> t_chars, t_tots |-> t_tots,
         kept |-> kept, go |-> go,
         t_char |-> IF go THEN SetMax({t_chars[kept[i]] : i \in 1 .. Len(kept)})
                    ELSE 0,
         pIndsChar |-> IF go THEN Take(cand, kept) ELSE << >>]

\* lines 624-630: the call of OS.calc_intTime that observation_characterization
\* makes when the start keepout holds and a planet is left to characterize:
\* its dMag and WA arguments, the times it returns and the total times
calc_intTime_call(plan) ==
    IF ~plan.early /\ plan.kogoodStart /\ AnyTrue(plan.tochar)
    THEN [asked |-> TRUE, dMag |-> plan.dMagArg, WA |-> plan.WAarg,
          t_chars |-> plan.t_chars, t_tots |-> plan.t_tots]
    ELSE [asked |-> FALSE]

\* lines 644-660: the clock after the characterization integration
CharacterizationClock(tk, t_char) ==
    Alloc(Integrate(tk, t_char \div OS.nt_flux, OS.nt_flux),
          t_char * (OS.timeMultiplier - 1))

\* lines 679, 686: characterized[det][tochar][cutoff][kogoodEnd][char] = v
\* writes into the copy that characterized[det] returns; the array run_sim
\* gets back keeps its zeros
ChainedAssign(characterized, positions, v) == characterized

\* positions of the array "characterized" the chain of lines 679-686 names
ChainPositions(plan, sub) ==
    LET detPos == Where(plan.det)
        tocharPos == Take(detPos, Where(plan.tochar))
        keptPos == Take(tocharPos, plan.kept)
    IN  Take(keptPos, sub)

\* lines 683-685, with BW kept in tenths
InsideMargin(WA) ==
    /\ WA * 20 > OS.IWA * (20 + OS.BW)
    /\ WA * 20 < OS.OWA * (20 - OS.BW)

\* lines 676-686: the status codes, char being the mask SNR > mode['SNR']
CharCodes(plan, snap, char) ==
    LET zeros == [i \in 1 .. Len(plan.det) |-> 0]
        charPos == ChainPositions(plan, Where(char))
        partial == ChainedAssign(zeros, charPos, 0 - 1)
        WAchar == Take(snap.WA, charPos)
        full == Where([i \in 1 .. Len(WAchar) |-> InsideMargin(WAchar[i])])
    IN  IF AnyTrue(char)
        THEN ChainedAssign(partial, Take(charPos, full), 1)
        ELSE zeros

\* np.where(characterized != code): the planets that did not get the code
CountSpectra_otherCodes(counter, plan, characterized, code) ==
    LET hit == Take(plan.pInds,
                    Where([i \in 1 .. Len(characterized) |-> characterized[i] # code]))
        real == StripFA(hit)
    IN  IF npAny(Range(hit))
        THEN [p \in DOMAIN counter |->
                 IF p \in Range(real) THEN counter[p] + 1 ELSE counter[p]]
        ELSE counter

\* lines 688-695: self.xSpectra[x] += 1 for the planets with the given code
CountSpectra(counter, plan, characterized, code) ==
    LET hit == Take(plan.pInds,
                    Where([i \in 1 .. Len(characterized) |-> characterized[i] = code]))
        real == StripFA(hit)
    IN  IF npAny(Range(hit))
        THEN [p \in DOMAIN counter |->
                 IF p \in Range(real) THEN counter[p] + 1 ELSE counter[p]]
        ELSE counter

\* lines 285-288 of run_sim, or the call of update_occulter_mass (280-282)
FinishObservation(r) ==
    IF OS.haveOcculter
    THEN /\ pc' = "mass"
         /\ UNCHANGED DRM
    ELSE /\ DRM' = Append(DRM, r)
         /\ pc' = "loop"

\* lines 266-276 of run_sim around observation_characterization (591-697)
observation_characterization ==
    /\ pc = "char"
    /\ LET plan == CharPlan(sInd, TK, lastDetected[sInd], fullSpectra)
           zeros == [i \in 1 .. Len(plan.det) |-> 0]
       IN  IF ~plan.go
           THEN /\ rec' = [rec EXCEPT !.int_time_char = 0,
                                      !.plan_characterized = zeros,
                                      !.SNR_char = << >>]
                /\ chr' = [sInd |-> sInd, ran |-> TRUE, go |-> FALSE,
                           cand |-> IF plan.early \/ ~plan.kogoodStart
                                    THEN << >> ELSE plan.cand,
                           pIndsChar |-> << >>, char |-> << >>,
                           fullBefore |-> fullSpectra,
                           intTime |-> calc_intTime_call(plan)]
                /\ UNCHANGED <<TK, fullSpectra, partialSpectra>>
                /\ FinishObservation(rec')
           ELSE \E high \in SNRanswers(Len(plan.pIndsChar)) :
                LET char == [i \in 1 .. Len(plan.pIndsChar) |-> i \in high]
                    characterized == CharCodes(plan, lastDetected[sInd], char)
                IN  /\ TK' = CharacterizationClock(TK, plan.t_char)
                    /\ partialSpectra' =
                         IF AnyTrue(char)
                         THEN CountSpectra(partialSpectra, plan, characterized, 0 - 1)
                         ELSE partialSpectra
                    /\ fullSpectra' =
                         IF AnyTrue(char)
                         THEN CountSpectra(fullSpectra, plan, characterized, 1)
                         ELSE fullSpectra
                    /\ rec' = [rec EXCEPT !.int_time_char = plan.t_char,
                                          !.plan_characterized = characterized,
                                          !.SNR_char = char]
                    /\ chr' = [sInd |-> sInd, ran |-> TRUE, go |-> TRUE,
                               cand |-> plan.cand,
                               pIndsChar |-> plan.pIndsChar, char |-> char,
                               fullBefore |-> fullSpectra,
                               intTime |-> calc_intTime_call(plan)]
                    /\ FinishObservation(rec')
    /\ UNCHANGED <<config, sInd, t_det, slewTime, starVisits, starRevisit,
                   lastDetected, starExtended, sel, call>>

\* line 773: the acceleration of the occulter
ao == OS.thrust \div OS.scMass

\* lines 280-282, 773-786: update_occulter_mass fills the slew fields of the
\* record, then reads sInd, a name it does not have, and raises: Obs.scMass
\* is not decremented (lines 792, 805), the record is not appended (288) and
\* the fuel test of lines 291-293 is not reached
update_occulter_mass ==
    /\ pc = "mass"
    /\ rec' = [rec EXCEPT
                  !.slew_mass_used = slewTime * OS.defburnPortion * OS.flowRate,
                  !.slew_dV = slewTime * ao * OS.defburnPortion]
    /\ pc' = "crashed"
    /\ UNCHANGED <<TK, config, sInd, t_det, slewTime, starVisits, starRevisit,
                   lastDetected, fullSpectra, partialSpectra, starExtended,
                   DRM, sel, chr, call>>

----------------------------------------------------------------------------
(* The missions explored: clocks, catalogs, planets, optics *)

\* tk.missionStart of the mission clock, in ticks
missionStart == 100

ClockOf(life, portion, starts, ends, dtAlloc) ==
    [currentTimeNorm |-> 0,
     currentTimeAbs |-> missionStart,
     exoplanetObsTime |-> 0,
     OBnumber |-> 0,
     missionStart |-> missionStart,
     missionLife |-> life,
     missionPortion |-> portion,
     OBstartTimes |-> starts,
     OBendTimes |-> ends,
     OBduration |-> None,
     dtAlloc |-> dtAlloc]

Lives == {MaxLife - 1, MaxLife}

\* one block over the whole mission, or two blocks with an idle gap
Blocks(life) ==
    {<< <<0>>, <<life>> >>, << <<0, 3 * Day>>, <<2 * Day, life>> >>}

DefaultClock == ClockOf(MaxLife, 10, <<0>>, <<MaxLife>>, Day)

Clocks ==
    UNION {{ClockOf(life, portion, b[1], b[2], dtAlloc) :
               portion \in {5, 10}, b \in Blocks(life), dtAlloc \in {3, Day}} :
           life \in Lives}

\* per-star answers of the oracles
StarGood  == [maxintTime |-> Day, koFrom |-> 0, koTo |-> 0,
              comp0 |-> 2, compUpdate |-> 1, aMaxWA |-> 3]
StarLow   == [maxintTime |-> 2 * Day, koFrom |-> 0, koTo |-> 0,
              comp0 |-> 1, compUpdate |-> 2, aMaxWA |-> 5]
StarLong  == [maxintTime |-> 3 * Day, koFrom |-> 0, koTo |-> 0,
              comp0 |-> 2, compUpdate |-> 2, aMaxWA |-> 3]
StarZero  == [maxintTime |-> 0, koFrom |-> 0, koTo |-> 0,
              comp0 |-> 2, compUpdate |-> 2, aMaxWA |-> 3]
StarKoStart == [maxintTime |-> Day, koFrom |-> 0, koTo |-> Day,
              comp0 |-> 2, compUpdate |-> 2, aMaxWA |-> 3]
StarKoEnd == [maxintTime |-> Day, koFrom |-> Day, koTo |-> 2 * Day + 2,
              comp0 |-> 2, compUpdate |-> 2, aMaxWA |-> 1]
\* inside keepout around the end of the mission life only: observable at the
\* start and at the end time next_target computes, not at the time where a
\* detection stops when its second allocation is refused
StarKoChar == [maxintTime |-> Day, koFrom |-> MaxLife - 1, koTo |-> MaxLife + 1,
              comp0 |-> 2, compUpdate |-> 2, aMaxWA |-> 3]
\* observable for the first observation only, and ranked first
StarKoLater == [maxintTime |-> Day, koFrom |-> 2 * Day, koTo |-> MaxLife + 1,
              comp0 |-> 3, compUpdate |-> 3, aMaxWA |-> 3]

StarProfiles == {StarGood, StarLow, StarLong, StarZero, StarKoStart, StarKoEnd}

RECURSIVE SeqsUpTo(_, _)
SeqsUpTo(S, n) ==
    IF n = 0 THEN {<< >>}
    ELSE LET shorter == SeqsUpTo(S, n - 1)
         IN  shorter \cup {Append(q, x) : q \in {r \in shorter : Len(r) = n - 1},
                                          x \in S}

Revisits == {<<Week + 2, Week + 2>>, <<3, 3>>}

CatalogOf(prof, rev) ==
    [nStars |-> Len(prof),
     maxintTime |-> [s \in 0 .. Len(prof) - 1 |-> prof[s + 1].maxintTime],
     koFrom |-> [s \in 0 .. Len(prof) - 1 |-> prof[s + 1].koFrom],
     koTo |-> [s \in 0 .. Len(prof) - 1 |-> prof[s + 1].koTo],
     comp0 |-> [s \in 0 .. Len(prof) - 1 |-> prof[s + 1].comp0],
     compUpdate |-> [s \in 0 .. Len(prof) - 1 |-> prof[s + 1].compUpdate],
     aMaxWA |-> [s \in 0 .. Len(prof) - 1 |-> prof[s + 1].aMaxWA],
     revDet |-> [s \in 0 .. Len(prof) - 1 |-> rev[1]],
     revAvg |-> [s \in 0 .. Len(prof) - 1 |-> rev[2]]]

\* a planet: its star, working angle, delta magnitude, exozodi brightness
PlanetKinds(nStars) ==
    {[star |-> s, WA |-> k[1], dMag |-> k[2], fEZ |-> 1] :
        s \in 0 .. nStars - 1,
        k \in {<<1, 1>>, <<3, 1>>, <<3, 2>>, <<4, 1>>, <<5, 1>>}}

UniverseOf(pl) ==
    [nPlans |-> Len(pl),
     plan2star |-> [p \in 0 .. Len(pl) - 1 |-> pl[p + 1].star],
     WA |-> [p \in 0 .. Len(pl) - 1 |-> pl[p + 1].WA],
     dMag |-> [p \in 0 .. Len(pl) - 1 |-> pl[p + 1].dMag],
     fEZ |-> [p \in 0 .. Len(pl) - 1 |-> pl[p + 1].fEZ]]

\* fa, md, snr say how the PostProcessing and photon-count oracles answer:
\* always the same way, or either way at every call
OpticsOf(tm, ntf, oh, occ, fa, md, snr, dMagFAmin) ==
    [timeMultiplier |-> tm, nt_flux |-> ntf,
     settlingTime |-> 0, ohTime |-> oh,
     haveOcculter |-> occ, slewUnit |-> 2,
     scMass |-> 6, dryMass |-> 3, thrust |-> 12,
     defburnPortion |-> 1, flowRate |-> 1,
     FAmode |-> fa, MDmode |-> md, SNRmode |-> snr,
     intCutoff |-> 3 * Day,
     IWA |-> 2, OWA |-> 4, BW |-> 2,
     fEZ0 |-> 1, dMagFAmin |-> dMagFAmin, dMagLim |-> 4]

DefaultOptics == OpticsOf(1, 1, 2, FALSE, "never", "never", "always", 4)

Catalogs == {CatalogOf(prof, rev) : prof \in SeqsUpTo(StarProfiles, MaxStars),
                                    rev \in Revisits}

\* a few catalogs for the sweeps over clocks and optics
PlainCatalogs ==
    {CatalogOf(prof, <<Week + 2, Week + 2>>) :
        prof \in {<< >>, <<StarGood>>, <<StarZero, StarZero>>,
                  <<StarGood, StarGood>>, <<StarZero, StarGood>>}}

Universes(nStars) ==
    IF nStars = 0 THEN {UniverseOf(<< >>)}
    ELSE {UniverseOf(pl) : pl \in SeqsUpTo(PlanetKinds(nStars), MaxPlans) \ {<< >>}}

PlainUniverses(nStars) ==
    IF nStars = 0 THEN {UniverseOf(<< >>)}
    ELSE {UniverseOf(<<[star |-> nStars - 1, WA |-> 3, dMag |-> 1, fEZ |-> 1]>>)}

\* the missions: one sweep per group of parameters, the others at defaults
ClockSweep ==
    UNION {{<<tk, tl, su, os>> :
               tk \in Clocks,
               os \in {DefaultOptics,
                       OpticsOf(1, 1, 0, FALSE, "never", "never", "always", 4)},
               su \in PlainUniverses(tl.nStars)} : tl \in PlainCatalogs}

CatalogSweep ==
    UNION {{<<DefaultClock, tl, su, DefaultOptics>> :
               su \in PlainUniverses(tl.nStars)} : tl \in Catalogs}

OpticsSweep ==
    UNION {{<<DefaultClock, tl, su, OpticsOf(tm, ntf, oh, occ, fa, "never", "always", 4)>> :
               su \in PlainUniverses(tl.nStars),
               tm \in {1, 2}, ntf \in {1, 2}, oh \in {0, 2}, occ \in BOOLEAN,
               fa \in {"always", "never"}} :
           tl \in {CatalogOf(<<StarZero, StarGood>>, <<3, 3>>),
                   CatalogOf(<<StarGood, StarLow>>, <<3, 3>>),
                   CatalogOf(<<StarGood, StarGood>>, <<3, 3>>)}}

\* occulter missions that start with fuel left or with none
FuelSweep ==
    UNION {{<<DefaultClock, tl, su,
              [OpticsOf(1, 1, 2, TRUE, "never", "never", "always", 4)
                  EXCEPT !.scMass = m]>> :
               su \in PlainUniverses(tl.nStars), m \in {2, 6}} :
           tl \in {CatalogOf(<<StarZero, StarGood>>, <<3, 3>>),
                   CatalogOf(<<StarGood, StarGood>>, <<3, 3>>)}}

PlanetSweep ==
    UNION {{<<DefaultClock, tl, su, DefaultOptics>> : su \in Universes(tl.nStars)} :
           tl \in {CatalogOf(<<StarGood, StarGood>>, <<3, 3>>)}}

\* planets for a catalog whose last star is the one observed: on that star
\* alone, or with planet 0 on the first star
Layouts(nStars) ==
    LET here == {k \in PlanetKinds(nStars) : k.star = nStars - 1 /\ k.WA < 4}
        there == [star |-> 0, WA |-> 3, dMag |-> 1, fEZ |-> 1]
    IN  {UniverseOf(pl) : pl \in SeqsUpTo(here, MaxPlans) \ {<< >>}}
        \cup {UniverseOf(<<there, k>>) : k \in here}

\* one oracle answering either way at every call, the others fixed
OracleModes ==
    {<<"never", "any", "always", 4, 2>>,
     <<"always", "any", "always", 4, 2>>,
     <<"any", "never", "always", 3, 3>>,
     <<"always", "never", "any", 4, 2>>}

OracleSweep ==
    UNION {{<<DefaultClock,
              CatalogOf(<<StarZero, [StarGood EXCEPT !.aMaxWA = o[5]]>>, <<3, 3>>),
              su, OpticsOf(1, 1, 2, FALSE, o[1], o[2], o[3], o[4])>> :
               su \in Layouts(2)} : o \in OracleModes}

\* a target that enters keepout while the detection is under way
KeepoutSweep ==
    {<<DefaultClock, CatalogOf(<<StarZero, StarKoChar>>, <<3, 3>>), su,
       OpticsOf(1, 1, 2, FALSE, "any", "never", "always", 3)>> :
        su \in Layouts(2)}
    \cup {<<DefaultClock, CatalogOf(<<StarKoLater, StarGood>>, <<3, 3>>), su,
            DefaultOptics>> : su \in PlainUniverses(2)}

Missions ==
    ClockSweep \cup CatalogSweep \cup OpticsSweep \cup FuelSweep
        \cup PlanetSweep \cup OracleSweep \cup KeepoutSweep

InitMission(m) ==
    /\ TK = m[1] /\ TL = m[2] /\ SU = m[3] /\ OS = m[4]
    /\ pc = "loop"
    /\ sInd = None /\ t_det = None /\ slewTime = None
    /\ starVisits = [s \in 0 .. m[2].nStars - 1 |-> 0]
    /\ starRevisit = << >>
    /\ lastDetected = [s \in 0 .. m[2].nStars - 1 |-> EmptySnapshot]
    /\ fullSpectra = [p \in 0 .. m[3].nPlans - 1 |-> 0]
    /\ partialSpectra = [p \in 0 .. m[3].nPlans - 1 |-> 0]
    /\ starExtended = {}
    /\ DRM = << >>
    /\ rec = NoRecord
    /\ sel = [sInd |-> None, ran |-> FALSE]
    /\ chr = [sInd |-> None, ran |-> FALSE]
    /\ call = NoCall

Init == \E m \in Missions : InitMission(m)

Next ==
    \/ RunSimExit
    \/ NextTargetEnter
    \/ SearchOver
    \/ SearchRetry
    \/ SearchSelect
    \/ observation_detection
    \/ observation_characterization
    \/ update_occulter_mass

Spec == Init /\ [][Next]_vars

----------------------------------------------------------------------------
(* The clock on its own: test_TimeKeeping.py sets the fields of a clock and *)
(* calls one method                                                         *)

ClockLife == 8
MaxDt == 3

\* the schedules the tests give a clock: one block over the mission, one
\* block ending before it, two blocks with an idle gap
ClockBlocks ==
    {<< <<0>>, <<ClockLife>> >>,
     << <<0>>, <<ClockLife - 3>> >>,
     << <<0, ClockLife - 3>>, <<ClockLife - 5, ClockLife>> >>}

\* the clocks the tests set up by assigning the fields
ClockStates ==
    {[ClockOf(ClockLife, portion, b[1], b[2], 1) EXCEPT
          !.currentTimeNorm = tn,
          !.currentTimeAbs = missionStart + tn,
          !.exoplanetObsTime = eo,
          !.OBnumber = ob] :
        portion \in {2, 5, 10}, b \in ClockBlocks,
        tn \in 0 .. ClockLife + 1, eo \in 0 .. ClockLife + 1, ob \in {0, 1}}

ClockInit ==
    /\ TK \in {tk \in ClockStates : tk.OBnumber < Len(tk.OBendTimes)}
    /\ TL = CatalogOf(<< >>, <<0, 0>>)
    /\ SU = UniverseOf(<< >>)
    /\ OS = DefaultOptics
    /\ pc = "clock"
    /\ sInd = None /\ t_det = None /\ slewTime = None
    /\ starVisits = << >>
    /\ starRevisit = << >>
    /\ lastDetected = << >>
    /\ fullSpectra = << >>
    /\ partialSpectra = << >>
    /\ starExtended = {}
    /\ DRM = << >>
    /\ rec = NoRecord
    /\ sel = [sInd |-> None, ran |-> FALSE]
    /\ chr = [sInd |-> None, ran |-> FALSE]
    /\ call = NoCall

\* tk.allocate_time(dt, addExoplanetObsTime) and the value it returns
CallAllocateTime ==
    /\ pc = "clock"
    /\ \E dt \in (0 - 1) .. MaxDt, charge \in BOOLEAN :
         /\ call' = [op |-> "allocate_time", before |-> TK, dt |-> dt,
                     charge |-> charge,
                     result |-> allocate_ok(TK, dt, charge)]
         /\ TK' = allocate_time(TK, dt, charge)
    /\ UNCHANGED <<config, mission>>

\* tk.mission_is_over(Obs, det_mode) and the value it returns
CallMissionIsOver ==
    /\ pc = "clock"
    /\ call' = [op |-> "mission_is_over", before |-> TK,
                result |-> mission_is_over(TK)]
    /\ UNCHANGED <<TK, config, mission>>

ClockNext ==
    \/ CallAllocateTime
    \/ CallMissionIsOver

ClockSpec == ClockInit /\ [][ClockNext]_vars

----------------------------------------------------------------------------
(* The observing blocks on their own: test_initOB builds them from          *)
(* OBduration, test_advancetToStartOfNextOB steps through them              *)

\* tk.missionLife and OBduration of test_initOB, in days
TestLife == 100
TestDuration == 10

\* missionPortion in tenths
Portions == {1, 2, 5, 10}

\* the block widths tried
Durations == {TestDuration \div 2, TestDuration, 2 * TestDuration}

\* the clocks before init_OB
FreshClocks ==
    {ClockOf(TestLife, portion, <<0>>, <<TestLife>>, 1) : portion \in Portions}

\* the widths that divide the observation budget of a clock
WidthsOf(tk) ==
    {d \in Durations :
        /\ (tk.missionLife * tk.missionPortion) % (10 * d) = 0
        /\ (d * 10) % tk.missionPortion = 0}

BlockInit ==
    /\ TK \in FreshClocks
    /\ TL = CatalogOf(<< >>, <<0, 0>>)
    /\ SU = UniverseOf(<< >>)
    /\ OS = DefaultOptics
    /\ pc = "fresh"
    /\ sInd = None /\ t_det = None /\ slewTime = None
    /\ starVisits = << >>
    /\ starRevisit = << >>
    /\ lastDetected = << >>
    /\ fullSpectra = << >>
    /\ partialSpectra = << >>
    /\ starExtended = {}
    /\ DRM = << >>
    /\ rec = NoRecord
    /\ sel = [sInd |-> None, ran |-> FALSE]
    /\ chr = [sInd |-> None, ran |-> FALSE]
    /\ call = NoCall

\* tk.init_OB(str(None), OBduration)
CallInitOB ==
    /\ pc = "fresh"
    /\ \E d \in WidthsOf(TK) :
         /\ call' = [op |-> "init_OB", before |-> TK, OBduration |-> d]
         /\ TK' = init_OB(TK, d)
    /\ pc' = "built"
    /\ UNCHANGED <<config, sInd, t_det, slewTime, starVisits, starRevisit,
                   lastDetected, fullSpectra, partialSpectra, starExtended,
                   DRM, rec, sel, chr>>

\* time spent observing inside the current block
CallAllocateInBlock ==
    /\ pc = "built"
    /\ call' = [op |-> "allocate_time", before |-> TK, dt |-> MaxDt]
    /\ TK' = Alloc(TK, MaxDt)
    /\ UNCHANGED <<config, mission>>

\* tk.advancetToStartOfNextOB(), while a later block exists
CallAdvance ==
    /\ pc = "built"
    /\ TK.OBnumber + 1 < Len(TK.OBstartTimes)
    /\ call' = [op |-> "advance", before |-> TK]
    /\ TK' = advance_to_next_observing_block(TK)
    /\ UNCHANGED <<config, mission>>

BlockNext ==
    \/ CallInitOB
    \/ CallAllocateInBlock
    \/ CallAdvance

BlockSpec == BlockInit /\ [][BlockNext]_vars

----------------------------------------------------------------------------
(* Properties of the observing blocks, under BlockSpec *)

\* the blocks of a clock are ordered and pairwise disjoint (a block may
\* start where the one before it ends), each of width d, the first one
\* starting at 0, and their widths sum to missionLife * missionPortion
WellBuilt(tk, d) ==
    /\ Len(tk.OBstartTimes) = Len(tk.OBendTimes)
    /\ Len(tk.OBstartTimes) >= 1
    /\ tk.OBstartTimes[1] = 0
    /\ \A k \in 1 .. Len(tk.OBstartTimes) :
           tk.OBendTimes[k] - tk.OBstartTimes[k] = d
    /\ \A k \in 1 .. Len(tk.OBstartTimes) - 1 :
           tk.OBendTimes[k] <= tk.OBstartTimes[k + 1]
    /\ Len(tk.OBstartTimes) * d * 10 = tk.missionLife * tk.missionPortion

C16_AdvanceToNextBlock ==
    call.op = "advance" =>
        /\ TK.OBnumber = call.before.OBnumber + 1
        /\ TK.currentTimeNorm = OBstart(TK)
        /\ TK.currentTimeAbs - call.before.currentTimeAbs
               = TK.currentTimeNorm - call.before.currentTimeNorm
        /\ call.before.currentTimeNorm = OBstart(call.before) =>
              /\ (TK.currentTimeNorm - call.before.currentTimeNorm)
                     * TK.missionPortion = TK.OBduration * 10
              /\ (TK.currentTimeAbs - call.before.currentTimeAbs)
                     * TK.missionPortion = TK.OBduration * 10

\* the clock has advanced from inside a block, where time had been spent,
\* to the start of the next one
C16_Witness ==
    /\ call.op = "advance"
    /\ call.before.currentTimeNorm > OBstart(call.before)
    /\ TK.currentTimeNorm = OBstart(TK)
    /\ TK.OBnumber >= 1

----------------------------------------------------------------------------
(* Properties of the clock, under ClockSpec *)

\* the three clock fields allocate_time may write
ClockFields(tk) == <<tk.currentTimeAbs, tk.currentTimeNorm, tk.exoplanetObsTime>>

\* the reasons to reject an allocation, read off the clock before the call
DtNotPositive == call.dt <= 0
PastMissionLife == call.before.currentTimeNorm + call.dt > call.before.missionLife
PastBlockEnd ==
    call.before.currentTimeNorm + call.dt
        > call.before.OBendTimes[call.before.OBnumber + 1]
PastObsBudget ==
    (call.before.exoplanetObsTime + call.dt) * 10
        > call.before.missionLife * call.before.missionPortion

\* C2: allocate_time(dt, charge) returns false and leaves currentTimeAbs,
\* currentTimeNorm and exoplanetObsTime as they were whenever dt <= 0, or the
\* allocation would pass missionLife, or would pass the end of the current
\* observing block (each for both values of charge), or, with charge true,
\* would take exoplanetObsTime past missionLife*missionPortion.
C2_AllocateAllOrNothing ==
    (/\ call.op = "allocate_time"
     /\ \/ DtNotPositive
        \/ PastMissionLife
        \/ PastBlockEnd
        \/ (call.charge /\ PastObsBudget))
    => /\ call.result = FALSE
       /\ ClockFields(TK) = ClockFields(call.before)

\* a rejected allocation whose only fault is the end of the observing block
C2_Witness ==
    /\ call.op = "allocate_time"
    /\ ~DtNotPositive /\ ~PastMissionLife /\ ~PastObsBudget
    /\ PastBlockEnd
    /\ call.result = FALSE

\* C3: a successful allocate_time(dt, charge) returns true and advances
\* currentTimeAbs and currentTimeNorm by exactly dt; exoplanetObsTime advances
\* by exactly dt when charge is true and is unchanged when charge is false;
\* with charge false the observation budget is no reason to reject.
C3_AllocateSuccess ==
    (call.op = "allocate_time")
    => /\ call.result =>
            /\ TK.currentTimeAbs = call.before.currentTimeAbs + call.dt
            /\ TK.currentTimeNorm = call.before.currentTimeNorm + call.dt
            /\ TK.exoplanetObsTime =
                 call.before.exoplanetObsTime + (IF call.charge THEN call.dt ELSE 0)
       /\ (~call.charge /\ ~DtNotPositive /\ ~PastMissionLife /\ ~PastBlockEnd)
            => call.result

\* an uncharged allocation that succeeds where a charged one would not
C3_Witness ==
    /\ call.op = "allocate_time"
    /\ ~call.charge
    /\ PastObsBudget
    /\ call.result
    /\ TK.currentTimeNorm = call.before.currentTimeNorm + call.dt

\* C4: mission_is_over() is true exactly when exoplanetObsTime has reached
\* missionLife*missionPortion, or currentTimeNorm has reached missionLife, or
\* currentTimeNorm is past the end of the current observing block and there
\* is no further block; in every other clock state it is false.
C4_MissionIsOverIff ==
    (call.op = "mission_is_over")
    => (call.result <=>
          \/ call.before.exoplanetObsTime * 10
               >= call.before.missionLife * call.before.missionPortion
          \/ call.before.currentTimeNorm >= call.before.missionLife
          \/ /\ call.before.currentTimeNorm
                  > call.before.OBendTimes[call.before.OBnumber + 1]
             /\ call.before.OBnumber + 1 >= Len(call.before.OBendTimes))

\* the mission is over for the one reason that the budget is exactly reached
C4_Witness ==
    /\ call.op = "mission_is_over"
    /\ call.result
    /\ call.before.exoplanetObsTime * 10
         = call.before.missionLife * call.before.missionPortion
    /\ call.before.currentTimeNorm < call.before.missionLife
    /\ call.before.currentTimeNorm
         <= call.before.OBendTimes[call.before.OBnumber + 1]

----------------------------------------------------------------------------
(* Properties of run_sim and next_target, under Spec *)

\* run_sim has neither returned nor raised
Running == pc \notin {"DONE", "crashed"}

\* C1: run_sim terminates for every catalog and every positive dtAlloc: the
\* search loop of next_target does not spin, also when an allocate_time call
\* near a ceiling is rejected.  As a property a finite run refutes: while
\* run_sim is running (and the log is below the bound explored) its next step
\* changes the state, so that no state repeats itself forever.
C1_RunSimTerminates ==
    (Running /\ Len(DRM) < MaxDRM) => ENABLED <<Next>>_vars

\* the target next_target returned and the pass that chose it
Returned == sel.ran /\ sel.sInd # None

\* C5: every target next_target returns satisfies keepout at its start time
\* (currentTimeAbs plus its slew time) and at its end time (start time plus
\* its integration time).
C5_ReturnedTargetInKeepout ==
    Returned =>
        LET s == sel.sInd
            start == missionStart + sel.pass.now + sel.pass.slew[s]
        IN  /\ keepout(s, start)
            /\ keepout(s, start + calc_maxintTime(s))

\* a target is returned by a pass that dropped another one at its end time
C5_Witness ==
    /\ Returned
    /\ sel.pass.S2 \ sel.pass.S3 # {}

\* C6: every target next_target returns has a total integration time (the
\* oracle's time multiplied by the mode's time multiplier) strictly between
\* 0 and the integration cutoff.
C6_ReturnedIntTimeInRange ==
    (sInd # None) =>
        /\ t_det = calc_maxintTime(sInd)
        /\ 0 < t_det * OS.timeMultiplier
        /\ t_det * OS.timeMultiplier < OS.intCutoff

\* a target is returned by a pass that dropped another one for its time
C6_Witness ==
    /\ Returned
    /\ sInd = sel.sInd
    /\ sel.pass.S1 \ sel.pass.S2 # {}

\* the targets one pass keeps for the completeness ranking of step 5
Eligible == sel.pass.S4

\* the candidates of step 4: the targets left by the keepout and time filters
Candidates == sel.pass.S3

\* target s has a revisit entry at all, within a week, exactly a week away
HasEntry(s) ==
    \E i \in 1 .. Len(sel.pass.revisit) : sel.pass.revisit[i][1] = s
EntryWithinWeek(s) ==
    \E i \in 1 .. Len(sel.pass.revisit) :
        /\ sel.pass.revisit[i][1] = s
        /\ Abs(sel.pass.revisit[i][2] - sel.pass.now) < Week
EntryAtWeek(s) ==
    \E i \in 1 .. Len(sel.pass.revisit) :
        /\ sel.pass.revisit[i][1] = s
        /\ Abs(sel.pass.revisit[i][2] - sel.pass.now) = Week

\* s has been visited more often than the least visited candidate
MoreVisited(s) ==
    \E r \in Candidates : sel.pass.visits[r] < sel.pass.visits[s]

\* C7 as stated: a candidate with a revisit entry (s, t_r) is eligible when
\* |t_r - currentTimeNorm| < 1 week and ineligible otherwise.
C7_RevisitEligibility ==
    sel.ran =>
        \A s \in Candidates :
            HasEntry(s) => (s \in Eligible <=> EntryWithinWeek(s))

\* C7 amended: a candidate visited more often than the least visited
\* candidate is eligible exactly when one of its revisit entries (s, t_r) has
\* |t_r - currentTimeNorm| < 1 week, an entry exactly 1 week away not
\* counting; the least visited candidates are eligible whatever their entries.
C7_RevisitEligibilityMoreVisited ==
    sel.ran =>
        \A s \in Candidates :
            IF MoreVisited(s)
            THEN s \in Eligible <=> EntryWithinWeek(s)
            ELSE s \in Eligible

\* a more-visited candidate whose only entry is exactly one week away is
\* left out
C7_Witness ==
    /\ sel.ran
    /\ \E s \in Candidates :
         /\ MoreVisited(s)
         /\ EntryAtWeek(s)
         /\ ~EntryWithinWeek(s)
         /\ s \notin Eligible

----------------------------------------------------------------------------
(* Properties of observation_characterization, under Spec *)

\* the real planets the last observation_characterization set out to
\* characterize (pIndsDet[tochar] without the false alarm)
Attempted == {p \in Range(chr.cand) : p # None}

\* no planet attempted had a full spectrum counted before the attempt
AttemptedWithoutFullSpectrum ==
    chr.ran => \A p \in Attempted : chr.fullBefore[p] < 1

----------------------------------------------------------------------------
(* End-to-end properties of run_sim, under Spec *)

\* one target, never in keepout, with an integration time of one day, in a
\* mission of one observing block whose whole life may be spent observing
SingleTargetMission ==
    /\ TK.missionPortion = 10
    /\ Len(TK.OBendTimes) = 1 /\ TK.OBendTimes[1] = TK.missionLife
    /\ TL.nStars = 1
    /\ TL.koFrom[0] = TL.koTo[0]
    /\ TL.maxintTime[0] = Day

\* C9: when run_sim returns from a single-target mission, the log holds
\* records of that target with strictly increasing arrival times, and their
\* count is within one of missionLife / (integration time + overhead).
C9_SingleTargetRecords ==
    (pc = "DONE" /\ SingleTargetMission) =>
        LET cycle == Day + OS.settlingTime + OS.ohTime
        IN  /\ \A i \in 1 .. Len(DRM) : DRM[i].star_ind = 0
            /\ \A i \in 1 .. Len(DRM) - 1 :
                   DRM[i].arrival_time < DRM[i + 1].arrival_time
            /\ Abs(Len(DRM) * cycle - TK.missionLife) <= cycle

\* x lies between the two limits a and b
Between(x, a, b) == Min(a, b) <= x /\ x <= Max(a, b)

\* record r carries the three false-alarm fields within their bounds
CarriesFalseAlarm(r) ==
    /\ r.FA
    /\ r.FA_fEZ # None
    /\ Between(r.FA_WA, OS.IWA, Min(OS.OWA, TL.aMaxWA[r.star_ind]))
    /\ Between(r.FA_dMag, OS.dMagFAmin, OS.dMagLim)

\* C10: with a false alarm at every detection, the record of every
\* observation (those of the log, and the one run_sim holds once
\* observation_detection is over) carries FA_fEZ, FA_dMag and FA_WA, equal to
\* the last entries of the target's snapshot and within their bounds, also
\* at a target where no real planet is detected.
C10_FalseAlarmFields ==
    (OS.FAmode = "always") =>
        /\ \A i \in 1 .. Len(DRM) : CarriesFalseAlarm(DRM[i])
        /\ (sInd # None /\ pc # "detect") =>
              /\ rec.star_ind = sInd
              /\ CarriesFalseAlarm(rec)
              /\ rec.FA_fEZ = Last(lastDetected[sInd].fEZ)
              /\ rec.FA_dMag = Last(lastDetected[sInd].dMag)
              /\ rec.FA_WA = Last(lastDetected[sInd].WA)

----------------------------------------------------------------------------
(* Properties of the mission clock during run_sim, under Spec *)

\* the arrival times of consecutive records of the log strictly increase
ArrivalsIncrease(log) ==
    \A i \in 1 .. Len(log) - 1 : log[i].arrival_time < log[i + 1].arrival_time

\* C11: currentTimeNorm does not decrease in any step of run_sim, and the
\* arrival_time values of consecutive records of the mission log strictly
\* increase.
C11_ClockAndArrivalsIncrease ==
    [][/\ TK'.currentTimeNorm >= TK.currentTimeNorm
       /\ ArrivalsIncrease(DRM')]_vars

\* C12: in every reachable state of a mission exoplanetObsTime is at most
\* missionLife * missionPortion and currentTimeNorm is at most missionLife,
\* whatever allocations next_target, observation_detection,
\* observation_characterization and calc_signal_noise have asked for.
C12_ClockWithinCeilings ==
    /\ TK.exoplanetObsTime * 10 <= TK.missionLife * TK.missionPortion
    /\ TK.currentTimeNorm <= TK.missionLife

\* observation_detection has asked for an integration that fits the
\* observing block but not the mission life or the observation budget, and
\* the clock still shows the arrival time
C12_Witness ==
    /\ pc = "char"
    /\ rec.plan_inds = << >>
    /\ TK.currentTimeNorm = rec.arrival_time
    /\ LET dt == rec.int_time_det * OS.timeMultiplier
       IN  /\ dt > 0
           /\ TK.currentTimeNorm + dt <= OBend(TK)
           /\ \/ TK.currentTimeNorm + dt > TK.missionLife
              \/ OverBudget(TK, TK.exoplanetObsTime + dt)

\* the clock stands inside the current observing block
InsideBlock(tk) ==
    OBstart(tk) <= tk.currentTimeNorm /\ tk.currentTimeNorm <= OBend(tk)

\* C13: in every state either mission_is_over() is true or currentTimeNorm
\* lies within the current observing block, and a step that charges
\* observation time starts and ends inside that block.
C13_ClockInsideBlock ==
    [][/\ mission_is_over(TK) \/ InsideBlock(TK)
       /\ mission_is_over(TK') \/ InsideBlock(TK')
       /\ TK'.exoplanetObsTime > TK.exoplanetObsTime =>
              InsideBlock(TK) /\ InsideBlock(TK')]_vars

\* observation_detection has asked for an integration that fits the mission
\* life and the observation budget but passes the end of the observing
\* block, and the clock still shows the arrival time, inside the block
C13_Witness ==
    /\ pc = "char"
    /\ rec.plan_inds = << >>
    /\ TK.currentTimeNorm = rec.arrival_time
    /\ InsideBlock(TK)
    /\ ~mission_is_over(TK)
    /\ LET dt == rec.int_time_det * OS.timeMultiplier
       IN  /\ dt > 0
           /\ TK.currentTimeNorm + dt > OBend(TK)
           /\ TK.currentTimeNorm + dt <= TK.missionLife
           /\ ~OverBudget(TK, TK.exoplanetObsTime + dt)

----------------------------------------------------------------------------
(* The search loop of next_target and the observing blocks, under Spec *)

\* a pass of the search loop finds no target, the retry allocation would
\* pass the end of the current observing block, and a later block exists
NoTargetBeforeBlockEnd ==
    /\ pc = "search"
    /\ ~mission_is_over(TK)
    /\ ~npAny(Pass(TK, sInd, starVisits, starRevisit).S4)
    /\ TK.currentTimeNorm + TK.dtAlloc > OBend(TK)
    /\ TK.OBnumber + 1 < Len(TK.OBendTimes)

\* C14: when no target is observable before the current observing block
\* ends and a later block exists, the next step of the scheduler takes the
\* clock to the start of the next block, increments OBnumber, and stays in
\* the search loop.
C14_AdvanceToNextBlock ==
    [][NoTargetBeforeBlockEnd =>
          /\ TK'.OBnumber = TK.OBnumber + 1
          /\ TK'.currentTimeNorm = TK.OBstartTimes[TK.OBnumber + 2]
          /\ pc' = "search"]_vars

----------------------------------------------------------------------------
(* Occulter missions, under Spec *)

\* run_sim has called update_occulter_mass for the observation of rec
MassUpdateCalled ==
    /\ OS.haveOcculter
    /\ rec.star_ind # None
    /\ rec.int_time_char # None
    /\ pc # "mass"

\* the spacecraft mass before the observation of rec: what the record
\* before it says, or the mass the mission starts with
MassBefore ==
    LET before == IF DRM # << >> /\ Last(DRM).arrival_time = rec.arrival_time
                  THEN Front(DRM) ELSE DRM
    IN  IF before = << >> THEN OS.scMass ELSE Last(before).char_scMass

\* C17: in an occulter mission whose spacecraft mass is below dryMass after
\* the mass update of an observation (here: it starts below dryMass and an
\* update can only lower it), run_sim appends the record of that observation
\* and reaches DONE with no further record.
C17_FuelExit ==
    (MassUpdateCalled /\ OS.scMass < OS.dryMass) =>
        /\ pc = "DONE"
        /\ Len(DRM) = 1
        /\ DRM[1].star_ind = rec.star_ind

\* C18: for every observation of an occulter mission update_occulter_mass
\* completes, the record carries the three masses used, the three delta-V
\* and the spacecraft mass after detection and after characterization, and
\* the mass has gone down by exactly the sum of the three masses used, the
\* slew mass being burn fraction * flow rate * slew time.
C18_MassUpdate ==
    MassUpdateCalled =>
        /\ pc # "crashed"
        /\ rec.slew_mass_used = slewTime * OS.defburnPortion * OS.flowRate
        /\ rec.det_mass_used # None /\ rec.char_mass_used # None
        /\ rec.slew_dV # None /\ rec.det_dV # None /\ rec.char_dV # None
        /\ rec.det_scMass = MassBefore - (rec.slew_mass_used + rec.det_mass_used)
        /\ rec.char_scMass = rec.det_scMass - rec.char_mass_used

----------------------------------------------------------------------------
(* The mission log and the revisit list, under Spec *)

\* log a is a prefix of log b
IsPrefix(a, b) == Len(a) <= Len(b) /\ SubSeq(b, 1, Len(a)) = a

\* no observation is under way: run_sim is between two observations or over
ObservationOver == pc \in {"loop", "search", "DONE", "crashed"}

\* the record of the target selected last is the last one of the log
RecordKept ==
    (ObservationOver /\ rec.star_ind # None) =>
        (DRM # << >> /\ Last(DRM) = rec)

\* C19: in every step of run_sim the log before the step is a prefix of the
\* log after it (so no appended record changes), a step appends at most one
\* record, the one of the observation that ends with it, and once the
\* observation of a selected target is over its record is the last of the
\* log: one record per selected target.
C19_LogAppendOnly ==
    [][/\ IsPrefix(DRM, DRM')
       /\ Len(DRM') <= Len(DRM) + 1
       /\ Len(DRM') = Len(DRM) + 1 =>
              (pc \in {"char", "mass"} /\ Last(DRM') = rec')
       /\ RecordKept']_vars

\* C20: in every reachable state no two entries of the revisit list have
\* the same target index.
C20_OneRevisitPerTarget ==
    \A i, j \in 1 .. Len(starRevisit) :
        starRevisit[i][1] = starRevisit[j][1] => i = j

----------------------------------------------------------------------------
(* SurveySimulation.__init__ called with instantiated modules               *)

\* lines 143-153: the modules that must be present
neededObjMods ==
    {"PlanetPopulation", "PlanetPhysicalModel", "OpticalSystem",
     "ZodiacalLight", "BackgroundSources", "PostProcessing", "Completeness",
     "TargetList", "SimulatedUniverse", "Observatory", "TimeKeeping"}

\* how many required modules a caller leaves out, how many it mislabels
MaxMissing == 2
MaxWrong == 2

\* the keys a caller may pass: the required ones and one more
ModuleKeys == neededObjMods \cup {"SurveyEnsemble"}

\* specs['modules']: each key with the _modtype of the object passed for it
ModuleSpecs ==
    UNION {{[k \in keys |-> IF k \in wrong THEN "Other" ELSE k] :
               wrong \in {w \in SUBSET keys : Cardinality(w) <= MaxWrong}} :
           keys \in {ModuleKeys \ out : out \in
                        {o \in SUBSET ModuleKeys : Cardinality(o) <= MaxMissing}}}

\* __init__ without the test for TimeKeeping
missingMods_noTimeKeeping(modules) ==
    {modName \in neededObjMods \ {"TimeKeeping"} : modName \notin DOMAIN modules}

\* lines 156-158: the required modules that were not provided
missingMods(modules) ==
    {modName \in neededObjMods : modName \notin DOMAIN modules}

\* lines 160-162: the provided modules whose _modtype is not their key
wrongMods(modules) ==
    {modName \in DOMAIN modules : modules[modName] # modName}

\* the exception __init__ raises, if any
initError(modules) ==
    IF missingMods(modules) # {} THEN "ValueError"
    ELSE IF wrongMods(modules) # {} THEN "AssertionError"
    ELSE "none"

\* before __init__ the object has no log and no attribute; the clock is the
\* TimeKeeping object the caller built
SetupInit ==
    /\ TK = DefaultClock
    /\ TL = CatalogOf(<< >>, <<0, 0>>)
    /\ SU = UniverseOf(<< >>)
    /\ OS = DefaultOptics
    /\ pc = "setup"
    /\ sInd = None /\ t_det = None /\ slewTime = None
    /\ starVisits = << >>
    /\ starRevisit = << >>
    /\ lastDetected = << >>
    /\ fullSpectra = << >>
    /\ partialSpectra = << >>
    /\ starExtended = {}
    /\ DRM = None
    /\ rec = NoRecord
    /\ sel = [sInd |-> None, ran |-> FALSE]
    /\ chr = [sInd |-> None, ran |-> FALSE]
    /\ \E modules \in ModuleSpecs :
         call = [op |-> "specs", modules |-> modules]

\* lines 154-171: the checks, the attributes, self.DRM = []
SurveySimulation_init ==
    /\ pc = "setup"
    /\ LET modules == call.modules
           error == initError(modules)
       IN  /\ call' = [op |-> "__init__", modules |-> modules,
                       error |-> error,
                       attrs |-> IF error = "none" THEN modules
                                 ELSE << >>]
           /\ IF error = "none"
              THEN DRM' = << >> /\ pc' = "constructed"
              ELSE DRM' = DRM /\ pc' = "setup_failed"
    /\ UNCHANGED <<TK, config, sInd, t_det, slewTime, starVisits, starRevisit,
                   lastDetected, fullSpectra, partialSpectra, starExtended,
                   rec, sel, chr>>

SetupNext == SurveySimulation_init

SetupSpec == SetupInit /\ [][SetupNext]_vars

\* C22: construction from instantiated modules fails, with the clock
\* untouched and no log, if one of the eleven required modules is missing or
\* a provided module's _modtype differs from its key; a construction that
\* succeeds leaves an empty log and every required module bound as an
\* attribute whose _modtype is its name.
C22_SetupChecks ==
    call.op = "__init__" =>
        LET bad == \/ \E modName \in neededObjMods :
                          modName \notin DOMAIN call.modules
                   \/ \E modName \in DOMAIN call.modules :
                          call.modules[modName] # modName
        IN  /\ bad => /\ pc = "setup_failed"
                      /\ call.error # "none"
                      /\ DRM = None
                      /\ TK = DefaultClock
            /\ ~bad => /\ pc = "constructed"
                       /\ DRM = << >>
                       /\ TK = DefaultClock
                       /\ \A modName \in neededObjMods :
                              /\ modName \in DOMAIN call.attrs
                              /\ call.attrs[modName] = modName

\* one construction has failed for a mislabelled module with all eleven
\* present
C22_Witness ==
    /\ call.op = "__init__"
    /\ neededObjMods \subseteq DOMAIN call.modules
    /\ \E modName \in DOMAIN call.modules : call.modules[modName] # modName
    /\ pc = "setup_failed"

----------------------------------------------------------------------------
(* Status codes and counters of observation_characterization, under Spec *)

\* observation_characterization has returned for the observation of rec
CharDone == chr.ran /\ rec.int_time_char # None

\* the planets of the target of rec, with the false alarm (None) at the end
\* when there is one: the array the status codes are aligned with
RecPlanets == IF rec.FA THEN Append(rec.plan_inds, None) ELSE rec.plan_inds

\* the position of planet p (None: the false alarm) in that array
PosOf(p) == CHOOSE j \in 1 .. Len(RecPlanets) : RecPlanets[j] = p

\* the code the status rule gives the i-th characterized planet: 1 above the
\* threshold and inside the margins, -1 above the threshold and outside, 0
\* otherwise
RuleCode(i) ==
    IF ~chr.char[i] THEN 0
    ELSE IF InsideMargin(lastDetected[rec.star_ind].WA[PosOf(chr.pIndsChar[i])])
    THEN 1
    ELSE 0 - 1

\* C23: observation_characterization returns, for each planet it
\* characterized, code 1 if the signal-to-noise exceeds the threshold and the
\* working angle is strictly between IWA*(1+BW/2) and OWA*(1-BW/2), code -1
\* if the threshold is exceeded and the working-angle condition fails, and
\* code 0 otherwise.
C23_CharacterizationCodes ==
    (CharDone /\ chr.go) =>
        \A i \in 1 .. Len(chr.pIndsChar) :
            rec.plan_characterized[PosOf(chr.pIndsChar[i])] = RuleCode(i)

----------------------------------------------------------------------------
(* Status codes of observation_detection, under Spec *)

\* observation_detection has returned for the observation of rec; call
\* holds what PPro.det_occur answered
DetectionDone == call.op = "det_occur" /\ rec.int_time_det # None

\* C24: observation_detection returns one status code per planet of the
\* target: -1 below the inner working angle, -2 above the outer one, and in
\* range (the limits included) 1 if the missed-detection mask does not mark
\* the planet and 0 if it does, whatever the mask says elsewhere.
C24_DetectionCodes ==
    DetectionDone =>
        /\ Len(rec.plan_detected) = Len(rec.plan_inds)
        /\ \A i \in 1 .. Len(rec.plan_inds) :
             LET p == rec.plan_inds[i]
             IN  rec.plan_detected[i] =
                     IF SU.WA[p] < OS.IWA THEN 0 - 1
                     ELSE IF SU.WA[p] > OS.OWA THEN 0 - 2
                     ELSE IF p \in call.MD THEN 0
                     ELSE 1

\* a target with a planet exactly at the outer working angle, detected, and
\* a planet out of range
C24_Witness ==
    /\ DetectionDone
    /\ \E i, j \in 1 .. Len(rec.plan_inds) :
         /\ SU.WA[rec.plan_inds[i]] = OS.OWA
         /\ rec.plan_detected[i] = 1
         /\ rec.plan_detected[j] < 0

----------------------------------------------------------------------------
(* Spectra counters of observation_characterization, under Spec *)

\* the real planets the status rule gives the code to in the last call
RuleCoded(code) ==
    {chr.pIndsChar[i] : i \in {j \in 1 .. Len(chr.pIndsChar) :
        chr.pIndsChar[j] # None /\ RuleCode(j) = code}}

----------------------------------------------------------------------------
(* False alarms of observation_detection, under Spec *)

\* the step is an observation_detection call in which det_occur reports a
\* false alarm and no real planet of the target is detected
FalseAlarmAlone ==
    /\ pc = "detect"
    /\ call'.op = "det_occur" /\ call'.FA
    /\ \A p \in Range(pIndsOf(sInd)) :
           observableOf(p) # 1 \/ p \in call'.MD

\* C26: when observation_detection reports a false alarm at a target where
\* no real planet is detected, the call completes: the false-alarm entry is
\* the last of all four snapshot sequences, the revisit time is the current
\* time plus the half period of the detection case, and exactly one entry
\* for the target is appended to the revisit list.
C26_FalseAlarmAlone ==
    [][FalseAlarmAlone =>
          /\ pc' = "char"
          /\ \A f \in {"det", "fEZ", "dMag", "WA"} :
                Len(lastDetected'[sInd][f]) = Len(pIndsOf(sInd)) + 1
          /\ Last(lastDetected'[sInd].det)
          /\ starRevisit' = Append(starRevisit,
                <<sInd, TK'.currentTimeNorm + TL.revDet[sInd]>>)]_vars

----------------------------------------------------------------------------
(* The survivors of a pass of next_target, under Spec *)

\* the targets that pass the start keepout, the integration-time bounds and
\* the end keepout, each filter applied whatever the indices left
FilterSurvivors ==
    {s \in Stars :
        /\ keepout(s, startTimes(TK, sInd)[s])
        /\ 0 < calc_maxintTime(s) * OS.timeMultiplier
        /\ calc_maxintTime(s) * OS.timeMultiplier < OS.intCutoff
        /\ keepout(s, startTimes(TK, sInd)[s] + calc_maxintTime(s))}

\* ... and the recency filter: the least visited of them and those with a
\* revisit entry within a week
Survivors ==
    {s \in FilterSurvivors :
        \/ \A r \in FilterSurvivors : starVisits[s] <= starVisits[r]
        \/ \E i \in 1 .. Len(starRevisit) :
              /\ starRevisit[i][1] = s
              /\ Abs(starRevisit[i][2] - TK.currentTimeNorm) < Week}

\* C27: a pass of the search loop charges the retry interval only if no
\* candidate survives the keepout, integration-time and recency filters;
\* when at least one survives, whatever its index, the pass selects one of
\* the survivors and charges no retry interval.
C27_RetryOnlyWithoutSurvivors ==
    [][(pc = "search" /\ ~mission_is_over(TK)) =>
          IF Survivors = {}
          THEN /\ sel'.sInd = None
               /\ TK' = Alloc(TK, TK.dtAlloc)
          ELSE /\ sel'.sInd \in Survivors
               /\ pc' = "detect"]_vars

----------------------------------------------------------------------------
(* The candidates of observation_characterization, under Spec *)

\* the planets flagged detected in the last snapshot of the target whose
\* full-spectrum counter is 0, and the false alarm (None) when the snapshot
\* has one
DetectedNotFull ==
    LET snap == lastDetected[sInd]
        pInds == pIndsOf(sInd)
    IN  {pInds[i] : i \in {j \in 1 .. Len(pInds) :
                              snap.det[j] /\ fullSpectra[pInds[j]] = 0}}
        \cup (IF Len(snap.det) = Len(pInds) + 1 THEN {None} ELSE {})

\* C28: when the start keepout holds, observation_characterization considers
\* exactly the planets flagged detected in the target's last snapshot (and
\* the false alarm when present) whose full-spectrum counter is 0, whatever
\* their indices.
C28_CharacterizationCandidates ==
    [][(pc = "char" /\ keepout(sInd, TK.currentTimeAbs)) =>
          Range(chr'.cand) = DetectedNotFull]_vars

----------------------------------------------------------------------------
(* The arguments of the integration-time oracle, under Spec *)

\* the planets of the target in snapshot order (None: the false alarm)
SnapPlanets ==
    IF Len(lastDetected[sInd].det) = Len(pIndsOf(sInd)) + 1
    THEN Append(pIndsOf(sInd), None) ELSE pIndsOf(sInd)

\* what observation_detection stored in a snapshot sequence for the planets
\* of the sequence cand
StoredFor(column, cand) ==
    [i \in 1 .. Len(cand) |->
        column[CHOOSE j \in 1 .. Len(SnapPlanets) : SnapPlanets[j] = cand[i]]]

\* C29: observation_characterization asks the integration-time oracle with,
\* for each candidate, the delta magnitude and the working angle that the
\* preceding observation_detection stored for it in the snapshot, each in
\* its own argument.
C29_OracleArguments ==
    [][(pc = "char" /\ chr'.intTime.asked) =>
          /\ chr'.intTime.dMag = StoredFor(lastDetected[sInd].dMag, chr'.cand)
          /\ chr'.intTime.WA = StoredFor(lastDetected[sInd].WA, chr'.cand)]_vars

----------------------------------------------------------------------------
(* The time filters of observation_characterization, under Spec *)

\* the i-th candidate of the call c passes the two conditions of next_target
\* (lines 382 and 386-390): 0 < t_tot < cutoff, and keepout at the end time
PassesBoth(c, i) ==
    /\ 0 < c.intTime.t_tots[i]
    /\ c.intTime.t_tots[i] < OS.intCutoff
    /\ keepout(sInd, TK.currentTimeAbs + c.intTime.t_tots[i])

\* C30: a candidate is characterized only if its total characterization time
\* t satisfies 0 < t < cutoff and the target satisfies keepout at the end
\* time, and the characterization lasts the largest integration time among
\* the candidates passing both.
C30_CharacterizationTimes ==
    [][(pc = "char" /\ chr'.go) =>
          LET c == chr'
              passing == {i \in 1 .. Len(c.cand) : PassesBoth(c, i)}
          IN  /\ \A i \in 1 .. Len(c.cand) :
                    c.cand[i] \in Range(c.pIndsChar) => i \in passing
              /\ passing # {}
              /\ rec'.int_time_char =
                    SetMax({c.intTime.t_chars[i] : i \in passing})]_vars

----------------------------------------------------------------------------
(* A characterization that does not take place, under Spec *)

\* the all-zero status vector for the snapshot of the target
ZeroStatus == [i \in 1 .. Len(lastDetected[sInd].det) |-> 0]

----------------------------------------------------------------------------
(* The time a detection takes, under Spec *)

\* the allocations observation_detection requests for the target, in order:
\* nt_flux sub-intervals in two halves each and the left-over time when a
\* planet is in range, one allocation of the total time otherwise
DetectionAllocations ==
    LET dt == t_det \div OS.nt_flux
    IN  IF \E p \in Range(pIndsOf(sInd)) : observableOf(p) = 1
        THEN [i \in 1 .. 2 * OS.nt_flux |-> dt \div 2]
                \o <<t_det * (OS.timeMultiplier - 1)>>
        ELSE <<t_det * OS.timeMultiplier>>

\* every allocation of dts is granted, made one after the other from the
\* clock tk (an allocation of no time at all moves nothing either way)
RECURSIVE AllGranted(_, _)
AllGranted(tk, dts) ==
    \/ dts = << >>
    \/ /\ dts[1] = 0 \/ allocate_ok(tk, dts[1], addExoplanetObsTimeDefault)
       /\ AllGranted(Alloc(tk, dts[1]), Tail(dts))

\* C32: when every allocation succeeds, observation_detection advances the
\* clock by exactly t_det * timeMultiplier, for every nt_flux and every time
\* multiplier, whether a planet is in range or none is.
C32_DetectionTime ==
    [][(pc = "detect" /\ AllGranted(TK, DetectionAllocations)) =>
          /\ TK'.currentTimeNorm = TK.currentTimeNorm + t_det * OS.timeMultiplier
          /\ TK'.currentTimeAbs = TK.currentTimeAbs + t_det * OS.timeMultiplier]_vars

\* a detection over two sub-intervals with a time multiplier of 2 and a planet
\* in range has taken twice the integration time
C32_Witness ==
    /\ pc = "char" /\ call.op = "det_occur"
    /\ OS.nt_flux = 2 /\ OS.timeMultiplier = 2
    /\ \E i \in 1 .. Len(rec.plan_inds) : rec.plan_detected[i] \in {0, 1}
    /\ TK.currentTimeNorm = rec.arrival_time + 2 * rec.int_time_det

----------------------------------------------------------------------------
(* The ranking of next_target, under Spec *)

\* the completeness a survivor is ranked by: the baseline before its first
\* visit, the updated value afterwards
RankOf(s) ==
    IF starVisits[s] = 0 THEN TL.comp0[s]
    ELSE completeness_update(s, TK.currentTimeNorm)

\* C33: the target next_target returns is a final survivor whose completeness
\* (baseline when never visited, updated value otherwise) is the largest of
\* the final survivor set, and the baseline completeness of the catalog is
\* left as it was.
C33_HighestCompleteness ==
    [][(pc = "search" /\ pc' = "detect") =>
          /\ sel'.sInd = sInd'
          /\ sel'.sInd \in sel'.pass.S4
          /\ \A x \in sel'.pass.S4 : RankOf(x) <= RankOf(sel'.sInd)
          /\ TL'.comp0 = TL.comp0]_vars

\* a target visited before was returned ahead of a survivor never visited,
\* on its updated completeness
C33_Witness ==
    /\ pc = "detect"
    /\ sel.sInd = sInd
    /\ sel.pass.visits[sInd] > 0
    /\ \E x \in sel.pass.S4 :
          /\ sel.pass.visits[x] = 0
          /\ TL.comp0[x] < TL.compUpdate[sInd]
          /\ TL.comp0[x] >= TL.comp0[sInd]

----------------------------------------------------------------------------
(* The visit filter of next_target, under Spec *)

\* the targets that pass the keepout and integration-time filters of the
\* pass P: observable at their start time, total time between 0 and the
\* cutoff, observable at their end time
PassedFilters(P) ==
    {s \in Stars :
        /\ keepout(s, P.start[s])
        /\ 0 < calc_maxintTime(s) * OS.timeMultiplier
        /\ calc_maxintTime(s) * OS.timeMultiplier < OS.intCutoff
        /\ keepout(s, P.start[s] + calc_maxintTime(s))}

\* target s has a revisit entry less than one week from the current time
RevisitDue(s) ==
    \E i \in 1 .. Len(starRevisit) :
        /\ starRevisit[i][1] = s
        /\ Abs(starRevisit[i][2] - TK.currentTimeNorm) < Week

\* C34: the target next_target returns passed the keepout and
\* integration-time filters, and either has the smallest visit count among
\* the targets that passed them or has a revisit entry within one week of
\* the current time.
C34_VisitFilter ==
    [][(pc = "search" /\ pc' = "detect") =>
          LET passed == PassedFilters(sel'.pass)
              s == sInd'
          IN  /\ s \in passed
              /\ \/ \A x \in passed : starVisits[s] <= starVisits[x]
                 \/ RevisitDue(s)]_vars

\* a target was returned on its revisit entry although a survivor with fewer
\* visits was available
C34_Witness ==
    /\ pc = "detect"
    /\ sel.sInd = sInd
    /\ \E x \in PassedFilters(sel.pass) : sel.pass.visits[x] < sel.pass.visits[sInd]
    /\ \E i \in 1 .. Len(sel.pass.revisit) :
          /\ sel.pass.revisit[i][1] = sInd
          /\ Abs(sel.pass.revisit[i][2] - sel.pass.now) < Week

----------------------------------------------------------------------------
(* next_target called with a previous target *)

\* run_sim line 230 calls next_target(sInd, detMode) with the target of the
\* cycle before.  TargetSpec starts where such a call is made: some targets
\* observed and logged, the clock somewhere in the last days of the mission.
TargetTimes == (MaxLife - 2 * Day) .. (MaxLife - 1)

TargetHistories == SeqsUpTo({0, 1}, 2)

\* the record of an observation of target s that detected nothing
PastRecord(s) ==
    [NewRecord(s, DefaultClock) EXCEPT !.arrival_time = 0,
                                       !.int_time_det = Day,
                                       !.int_time_char = 0]

TargetInit ==
    \E t \in TargetTimes, hist \in TargetHistories, oh \in {0, 2},
       occ \in BOOLEAN,
       prof \in {<<StarGood, StarGood>>, <<StarZero, StarGood>>,
                 <<StarGood, StarZero>>} :
        /\ TK = [DefaultClock EXCEPT !.currentTimeNorm = t,
                                     !.currentTimeAbs = missionStart + t,
                                     !.exoplanetObsTime = t]
        /\ TL = CatalogOf(prof, <<3, 3>>)
        /\ SU = UniverseOf(<<[star |-> 1, WA |-> 5, dMag |-> 1, fEZ |-> 1]>>)
        /\ OS = OpticsOf(1, 1, oh, occ, "never", "never", "always", 4)
        /\ pc = "loop"
        /\ sInd = IF hist = << >> THEN None ELSE Last(hist)
        /\ t_det = None /\ slewTime = None
        /\ starVisits = [s \in 0 .. 1 |->
                            Cardinality({i \in 1 .. Len(hist) : hist[i] = s})]
        /\ starRevisit = [i \in 1 .. Len(hist) |-> <<hist[i], t>>]
        /\ lastDetected = [s \in 0 .. 1 |-> EmptySnapshot]
        /\ fullSpectra = [p \in 0 .. 0 |-> 0]
        /\ partialSpectra = [p \in 0 .. 0 |-> 0]
        /\ starExtended = {}
        /\ DRM = [i \in 1 .. Len(hist) |-> PastRecord(hist[i])]
        /\ rec = NoRecord
        /\ sel = [sInd |-> None, ran |-> FALSE]
        /\ chr = [sInd |-> None, ran |-> FALSE]
        /\ call = NoCall

TargetNext ==
    \/ NextTargetEnter
    \/ SearchOver
    \/ SearchRetry
    \/ SearchSelect

TargetSpec == TargetInit /\ [][TargetNext]_vars

----------------------------------------------------------------------------
(* The visit counts, under TargetSpec *)

\* the number of records of the mission log for target s
RecordsOf(log, s) == Cardinality({i \in 1 .. Len(log) : log[i].star_ind = s})

----------------------------------------------------------------------------
(* A detection on a target without planets, under Spec *)

\* C36: observation_detection on a target with no planet and no false alarm
\* ends without error: the status vector is empty, no planet is reported
\* missed, the clock is charged with one allocation of t_det * timeMultiplier,
\* and exactly one revisit entry is appended, at the current time plus the
\* share of the catalog-average period.
C36_NoPlanets ==
    [][(pc = "detect" /\ pIndsOf(sInd) = << >> /\ ~call'.FA) =>
          /\ pc' = "char"
          /\ rec'.plan_detected = << >>
          /\ call'.MD = {}
          /\ TK' = Alloc(TK, t_det * OS.timeMultiplier)
          /\ starRevisit' =
                Append(starRevisit, <<sInd, TK'.currentTimeNorm + TL.revAvg[sInd]>>)]_vars

\* a target without planets was observed without a false alarm, with a time
\* multiplier of 2
C36_Witness ==
    /\ pc = "char" /\ call.op = "det_occur" /\ ~call.FA
    /\ rec.star_ind = sInd /\ rec.plan_inds = << >> /\ rec.plan_detected = << >>
    /\ OS.timeMultiplier = 2
    /\ TK.currentTimeNorm = rec.arrival_time + 2 * rec.int_time_det
    /\ starRevisit # << >> /\ Last(starRevisit)[1] = sInd

----------------------------------------------------------------------------
(* The shape of the detection snapshot, under Spec *)

\* the four sequences of a snapshot all have length n
SnapshotOfLength(snap, n) ==
    /\ Len(snap.det) = n /\ Len(snap.fEZ) = n
    /\ Len(snap.dMag) = n /\ Len(snap.WA) = n

\* the false-alarm flag observation_characterization derives for the current
\* target from the length of its snapshot
LengthTestFA == CharPlan(sInd, TK, lastDetected[sInd], fullSpectra).FA

\* C37: after observation_detection on a target, the four sequences of its
\* snapshot have one entry per planet of the target, and one more when the
\* detection reported a false alarm; the length test of
\* observation_characterization then finds a false alarm exactly when the
\* detection reported one.
C37_SnapshotShape ==
    (pc = "char" /\ call.op = "det_occur") =>
        /\ SnapshotOfLength(lastDetected[sInd],
              Len(pIndsOf(sInd)) + (IF call.FA THEN 1 ELSE 0))
        /\ LengthTestFA <=> call.FA

\* a detection with a false alarm on a target with a planet left a snapshot
\* of two entries
C37_Witness ==
    /\ pc = "char" /\ call.op = "det_occur" /\ call.FA
    /\ Len(pIndsOf(sInd)) = 1
    /\ SnapshotOfLength(lastDetected[sInd], 2)
    /\ LengthTestFA

====
